---- MODULE Spec2Model ----
(***************************************************************************)
(* TuiNotes: a Bubble Tea terminal application over an SQLite note store.  *)
(*                                                                         *)
(* The model follows internal/ui/app.go, notes_list.go, note_editor.go,    *)
(* help.go, internal/utils/fuzzy.go and the storage service/repositories.  *)
(*                                                                         *)
(* Conventions                                                             *)
(*  - a Go string is a sequence of one-character strings;                  *)
(*  - a key press is the text of tea.KeyMsg.String(): "esc", "enter",      *)
(*    "backspace", "tab", "up", "down", "ctrl+s", ... or one character;    *)
(*  - a *models.Note held by the list is the index of the note in          *)
(*    allNotes (filteredNotes holds pointers into allNotes);               *)
(*  - a tea.Cmd returned by Update is run by the Bubble Tea runtime in its *)
(*    own goroutine and its result is sent back as a message: both stages  *)
(*    are kept in the set `pending`, where equal commands and equal        *)
(*    messages in flight are one; a command's function is one step.        *)
(***************************************************************************)
EXTENDS Integers, Sequences, FiniteSets, TLC

\* ------------------------------------------------------------------ bounds
\* longest text a key press may grow the title or the content buffer to
MaxText == 1
\* longest text a key press may grow the tag input or the search query to
MaxInput == 2
\* most writes of a note row (create, update, delete) the store accepts; a
\* later write fails as a store error does
MaxWrites == 2
\* most commands and messages in flight at once
MaxPending == 2
\* most tags the editor buffer grows to
MaxTags == 2

\* longest pattern handed to FuzzyMatch and FuzzySearch
MaxPattern == 2
\* longest text matched against a pattern
MaxCandidate == 3
\* most texts handed to FuzzySearch
MaxCandidates == 3
\* longest text handed to SplitWords, the example of its contract apart
MaxSplit == 4
\* most calls of the storage service in a row
MaxCalls == 3

\* --------------------------------------------------------------- characters
UpperLetters == {"E", "D", "H", "W"}
LowerLetters == {"n", "e", "d", "h", "l", "o", "r", "w"}
Digits == {"1", "2", "3"}
Whitespace == {" ", "\n"}

\* unicode.IsLetter(r) || unicode.IsDigit(r)
IsAlnum(c) == c \in UpperLetters \cup LowerLetters \cup Digits

\* strings.ToLower on one character
LowerChar(c) ==
  CASE c = "E" -> "e" [] c = "D" -> "d" [] c = "H" -> "h" [] c = "W" -> "w"
    [] OTHER -> c

\* strings.ToLower
ToLower(s) == [i \in DOMAIN s |-> LowerChar(s[i])]

\* byte order of the characters of the model (ORDER BY name, BINARY collation)
CharOrd(c) ==
  CASE c = "\n" -> 10 [] c = " " -> 32 [] c = "1" -> 49 [] c = "?" -> 63
    [] c = "D" -> 68 [] c = "E" -> 69 [] c = "_" -> 95 [] c = "d" -> 100
    [] c = "e" -> 101 [] c = "n" -> 110 [] c = "q" -> 113 [] OTHER -> 0

RECURSIVE StrLess(_, _)
StrLess(a, b) ==
  IF b = <<>> THEN FALSE
  ELSE IF a = <<>> THEN TRUE
  ELSE IF a[1] # b[1] THEN CharOrd(a[1]) < CharOrd(b[1])
  ELSE StrLess(Tail(a), Tail(b))

\* strings.Contains(s, sub)
Contains(s, sub) ==
  \E i \in 0..(Len(s) - Len(sub)) : SubSeq(s, i + 1, i + Len(sub)) = sub

\* strings.EqualFold (simple folding on the model's characters)
EqualFold(a, b) == ToLower(a) = ToLower(b)

RECURSIVE TrimLeft(_)
TrimLeft(s) ==
  IF s # <<>> /\ s[1] \in Whitespace THEN TrimLeft(Tail(s)) ELSE s

RECURSIVE TrimRight(_)
TrimRight(s) ==
  IF s # <<>> /\ s[Len(s)] \in Whitespace
  THEN TrimRight(SubSeq(s, 1, Len(s) - 1)) ELSE s

\* strings.TrimSpace left out
NoTrim(s) == s

\* strings.TrimSpace
TrimSpace(s) == TrimRight(TrimLeft(s))

\* s[:len(s)-1]
DropLast(s) == SubSeq(s, 1, Len(s) - 1)

\* ------------------------------------------------------- internal/utils/fuzzy.go
\* SplitWords: the loop over the runes of text, with the word being built
RECURSIVE SplitWordsLoop(_, _, _)
SplitWordsLoop(text, currentWord, words) ==
  IF text = <<>>
  THEN IF Len(currentWord) > 0 THEN Append(words, ToLower(currentWord)) ELSE words
  ELSE IF IsAlnum(text[1])
       THEN SplitWordsLoop(Tail(text), Append(currentWord, text[1]), words)
       ELSE IF Len(currentWord) > 0
            THEN SplitWordsLoop(Tail(text), <<>>, Append(words, ToLower(currentWord)))
            ELSE SplitWordsLoop(Tail(text), currentWord, words)

\* SplitWords without the word still being built when the loop ends
SplitWordsUnflushed(text) ==
  LET words == SplitWordsLoop(text, <<>>, <<>>)
  IN IF text # <<>> /\ IsAlnum(text[Len(text)])
     THEN SubSeq(words, 1, Len(words) - 1)
     ELSE words

\* SplitWords
SplitWords(text) == SplitWordsLoop(text, <<>>, <<>>)

\* ContainsAnyWord looking for the search terms in the words only
ContainsAnyWordOneWay(searchTerms, textWords) ==
  \E i \in DOMAIN searchTerms : \E j \in DOMAIN textWords :
    Contains(textWords[j], searchTerms[i])

\* ContainsAnyWord: true as soon as a search term and a word contain one another
ContainsAnyWord(searchTerms, textWords) ==
  \E i \in DOMAIN searchTerms : \E j \in DOMAIN textWords :
    \/ Contains(textWords[j], searchTerms[i])
    \/ Contains(searchTerms[i], textWords[j])

\* FuzzyMatch's loop with a run of matches that a character without a match
\* does not end
RECURSIVE FuzzyMatchLoopKeepsRun(_, _, _, _, _, _)
FuzzyMatchLoopKeepsRun(pattern, text, i, patternIndex, score, consecutiveMatches) ==
  IF i > Len(text) THEN [patternIndex |-> patternIndex, score |-> score]
  ELSE IF patternIndex < Len(pattern) /\ text[i] = pattern[patternIndex + 1]
  THEN FuzzyMatchLoopKeepsRun(pattern, text, i + 1, patternIndex + 1,
                              score + 10 + consecutiveMatches * 2,
                              consecutiveMatches + 1)
  ELSE FuzzyMatchLoopKeepsRun(pattern, text, i + 1, patternIndex, score,
                              consecutiveMatches)

\* FuzzyMatch's loop over the runes of text from the i-th on
RECURSIVE FuzzyMatchLoop(_, _, _, _, _, _)
FuzzyMatchLoop(pattern, text, i, patternIndex, score, consecutiveMatches) ==
  IF i > Len(text) THEN [patternIndex |-> patternIndex, score |-> score]
  ELSE IF patternIndex < Len(pattern) /\ text[i] = pattern[patternIndex + 1]
  THEN FuzzyMatchLoop(pattern, text, i + 1, patternIndex + 1,
                      score + 10 + consecutiveMatches * 2,
                      consecutiveMatches + 1)
  ELSE FuzzyMatchLoop(pattern, text, i + 1, patternIndex, score, 0)

\* FuzzyMatch that returns the score of a pattern matched in part
FuzzyMatchPartial(pattern, text) ==
  IF pattern = <<>> THEN 100
  ELSE LET textRunes == ToLower(text)
           r == FuzzyMatchLoop(ToLower(pattern), textRunes, 1, 0, 0, 0)
       IN IF Len(textRunes) > 0 THEN r.score + (100 \div Len(textRunes))
          ELSE r.score

\* FuzzyMatch with a bonus that grows with the length of the text
FuzzyMatchLongerBonus(pattern, text) ==
  IF pattern = <<>> THEN 100
  ELSE LET patternRunes == ToLower(pattern)
           textRunes == ToLower(text)
           r == FuzzyMatchLoop(patternRunes, textRunes, 1, 0, 0, 0)
       IN IF r.patternIndex = Len(patternRunes)
          THEN r.score + Len(textRunes)
          ELSE 0

\* FuzzyMatch
FuzzyMatch(pattern, text) ==
  IF pattern = <<>> THEN 100
  ELSE LET patternRunes == ToLower(pattern)
           textRunes == ToLower(text)
           r == FuzzyMatchLoop(patternRunes, textRunes, 1, 0, 0, 0)
       IN IF r.patternIndex = Len(patternRunes)
          THEN IF Len(textRunes) > 0 THEN r.score + (100 \div Len(textRunes))
               ELSE r.score
          ELSE 0

\* FuzzySearch's first loop: the texts from the i-th on that score above 0
RECURSIVE FuzzyCollect(_, _, _, _)
FuzzyCollect(pattern, texts, i, results) ==
  IF i > Len(texts) THEN results
  ELSE LET score == FuzzyMatch(pattern, texts[i])
       IN FuzzyCollect(pattern, texts, i + 1,
                       IF score > 0
                       THEN Append(results, [Text |-> texts[i], Score |-> score])
                       ELSE results)

\* FuzzySearch's inner sorting loop, j counted from 0 as in the source
RECURSIVE FuzzySortInner(_, _, _)
FuzzySortInner(results, i, j) ==
  IF j >= Len(results) THEN results
  ELSE FuzzySortInner(IF results[j + 1].Score > results[i + 1].Score
                      THEN [results EXCEPT ![i + 1] = results[j + 1],
                                           ![j + 1] = results[i + 1]]
                      ELSE results,
                      i, j + 1)

\* FuzzySearch's outer sorting loop, i counted from 0 as in the source
RECURSIVE FuzzySortOuter(_, _)
FuzzySortOuter(results, i) ==
  IF i >= Len(results) - 1 THEN results
  ELSE FuzzySortOuter(FuzzySortInner(results, i, i + 1), i + 1)

\* FuzzySearch without the sorting loops
FuzzySearchUnsorted(pattern, texts) == FuzzyCollect(pattern, texts, 1, <<>>)

\* FuzzySearch
FuzzySearch(pattern, texts) ==
  FuzzySortOuter(FuzzyCollect(pattern, texts, 1, <<>>), 0)

\* ------------------------------------------------------------------ storage
\* The SQLite tables: notes in updated_at DESC order (the order GetAll returns),
\* tags, the note_tags join rows, and the AUTOINCREMENT counters.
\* GetAllNotes(models.NoteFilter{Limit: 100})
NotesLimit == 100

NoTag == [ID |-> 0, Name |-> <<>>]

\* tagRepository.GetByName: the tag row with exactly this name, or NoTag
GetByName(st, name) ==
  IF \E i \in DOMAIN st.tags : st.tags[i].Name = name
  THEN st.tags[CHOOSE i \in DOMAIN st.tags : st.tags[i].Name = name]
  ELSE NoTag

\* tagRepository.Create: INSERT INTO tags (name); the name is UNIQUE
TagCreate(st, name) ==
  [st EXCEPT !.tags = Append(@, [ID |-> st.nextTagID, Name |-> name]),
             !.nextTagID = @ + 1]

\* GetOrCreateTag without the lookup by name: a tag row is inserted every time
GetOrCreateTagAlwaysCreates(st, name) == TagCreate(st, name)

\* Service.GetOrCreateTag: the store afterwards
GetOrCreateTag(st, name) ==
  IF GetByName(st, name) # NoTag THEN st ELSE TagCreate(st, name)

\* noteRepository.AddTag: INSERT OR IGNORE INTO note_tags
AddTag(st, noteID, tagID) ==
  [st EXCEPT !.noteTags = @ \cup {<<noteID, tagID>>}]

\* Service.AddTagToNote
AddTagToNote(st, noteID, tagName) ==
  LET st1 == GetOrCreateTag(st, tagName)
  IN AddTag(st1, noteID, GetByName(st1, tagName).ID)

\* noteRepository.RemoveTag: rowsAffected == 0 is an error
RemoveTagOk(st, noteID, tagID) == <<noteID, tagID>> \in st.noteTags

RemoveTag(st, noteID, tagID) ==
  [st EXCEPT !.noteTags = @ \ {<<noteID, tagID>>}]

\* the tags in a set of tag rows, ORDER BY name
RECURSIVE SortByName(_)
SortByName(rows) ==
  IF rows = {} THEN <<>>
  ELSE LET least == CHOOSE t \in rows :
                      \A u \in rows \ {t} : StrLess(t.Name, u.Name)
       IN <<least>> \o SortByName(rows \ {least})

TagRows(st) == {st.tags[i] : i \in DOMAIN st.tags}

\* noteRepository.getNoteTags: JOIN note_tags ... ORDER BY t.name
getNoteTags(st, noteID) ==
  SortByName({t \in TagRows(st) : <<noteID, t.ID>> \in st.noteTags})

\* tagRepository.GetAll: SELECT id, name FROM tags ORDER BY name
GetAllTags(st) == SortByName(TagRows(st))

\* noteRepository.GetAll with an empty filter but the limit: every note with its
\* tags, ORDER BY updated_at DESC LIMIT ?
GetAllNotes(st) ==
  LET n == IF Len(st.notes) < NotesLimit THEN Len(st.notes) ELSE NotesLimit
  IN [i \in 1..n |->
        [ID |-> st.notes[i].ID, Title |-> st.notes[i].Title,
         Content |-> st.notes[i].Content,
         Tags |-> getNoteTags(st, st.notes[i].ID)]]

NoteStored(st, id) == \E i \in DOMAIN st.notes : st.notes[i].ID = id

\* the notes rows other than id, in order
RECURSIVE WithoutNote(_, _)
WithoutNote(rows, id) ==
  IF rows = <<>> THEN <<>>
  ELSE IF rows[1].ID = id THEN WithoutNote(Tail(rows), id)
  ELSE <<rows[1]>> \o WithoutNote(Tail(rows), id)

\* Service.CreateNote: models.NewNote then INSERT; the newest updated_at
CreateNote(st, title, content) ==
  [st EXCEPT !.notes = <<[ID |-> st.nextNoteID, Title |-> title,
                          Content |-> content]>> \o @,
             !.nextNoteID = @ + 1]

\* noteRepository.Update without the title column
UpdateNoteKeepTitle(st, id, title, content) ==
  [st EXCEPT !.notes =
     <<[ID |-> id, Title |-> @[CHOOSE i \in DOMAIN @ : @[i].ID = id].Title,
        Content |-> content]>> \o WithoutNote(@, id)]

\* noteRepository.Update: UPDATE notes SET title, content, updated_at = now
UpdateNote(st, id, title, content) ==
  [st EXCEPT !.notes = <<[ID |-> id, Title |-> title, Content |-> content]>>
                       \o WithoutNote(@, id)]

\* noteRepository.Delete: DELETE FROM notes WHERE id = ? (the connection is opened
\* without the foreign_keys pragma, so no ON DELETE CASCADE runs)
DeleteNote(st, id) == [st EXCEPT !.notes = WithoutNote(@, id)]

\* noteRepository.Update and Delete: rowsAffected == 0 is the not-found error
UpdateFails(st, id) == ~NoteStored(st, id)
DeleteFails(st, id) == ~NoteStored(st, id)

\* noteRepository.RemoveTag: rowsAffected == 0 is the not-found error
RemoveTagFails(st, noteID, tagID) == ~RemoveTagOk(st, noteID, tagID)

\* a tags table whose name column is not UNIQUE
TagCreateNeverFails(st, name) == FALSE

\* tagRepository.Create: the INSERT fails on a name that is there (UNIQUE)
TagCreateFails(st, name) == \E i \in DOMAIN st.tags : st.tags[i].Name = name

\* Service.GetOrCreateTag: the error of Create after GetByName found nothing
GetOrCreateTagFails(st, name) ==
  GetByName(st, name) = NoTag /\ TagCreateFails(st, name)

\* a plain INSERT INTO note_tags: the primary key rejects a row that is there
AddTagFailsOnDuplicate(st, noteID, tagID) == <<noteID, tagID>> \in st.noteTags

\* noteRepository.AddTag: INSERT OR IGNORE skips a row that is there, and no
\* foreign key is enforced
AddTagFails(st, noteID, tagID) == FALSE

\* Service.AddTagToNote: its error
AddTagToNoteFails(st, noteID, tagName) ==
  IF GetOrCreateTagFails(st, tagName) THEN TRUE
  ELSE LET st1 == GetOrCreateTag(st, tagName)
       IN AddTagFails(st1, noteID, GetByName(st1, tagName).ID)

\* what GetByID returns with its not-found error
NoRow == [ID |-> 0, Title |-> <<>>, Content |-> <<>>, Tags |-> <<>>]

\* Service.GetNote: noteRepository.GetByID, the note with its tags
GetNote(st, id) ==
  IF NoteStored(st, id)
  THEN LET row == st.notes[CHOOSE i \in DOMAIN st.notes : st.notes[i].ID = id]
       IN [ID |-> row.ID, Title |-> row.Title, Content |-> row.Content,
           Tags |-> getNoteTags(st, id)]
  ELSE NoRow

\* text LIKE '%query%' on the characters of the model: LIKE folds the case of
\* the ASCII letters
Like(text, query) == Contains(ToLower(text), ToLower(query))

\* the rows of notes[i..] that the search condition of GetAll keeps
RECURSIVE SearchLoop(_, _, _, _)
SearchLoop(st, i, query, titleOnly) ==
  IF i > Len(st.notes) THEN <<>>
  ELSE LET row == st.notes[i]
           rest == SearchLoop(st, i + 1, query, titleOnly)
       IN IF \/ query = <<>>
             \/ Like(row.Title, query)
             \/ ~titleOnly /\ Like(row.Content, query)
          THEN <<GetNote(st, row.ID)>> \o rest
          ELSE rest

\* the first limit elements of rows, all of them when limit is not above 0
Limited(rows, limit) ==
  IF limit > 0 /\ limit < Len(rows) THEN SubSeq(rows, 1, limit) ELSE rows

\* SearchNotes looking at the titles only
SearchNotesInTitles(st, query, limit) ==
  Limited(SearchLoop(st, 1, query, TRUE), limit)

\* Service.SearchNotes: noteRepository.Search, GetAll with SearchQuery and Limit
SearchNotes(st, query, limit) ==
  Limited(SearchLoop(st, 1, query, FALSE), limit)

\* ------------------------------------------------------------------- state
VARIABLES
  store,        \* the database: [notes, tags, noteTags, nextNoteID, nextTagID]
  writes,       \* the note rows written so far
  pending,      \* commands not yet run and messages not yet delivered
  status,       \* "running", "quit" (tea.Quit handled) or "panic"
  currentView,  \* App.currentView
  notesList,    \* the NotesListModel
  noteEditor,   \* the NoteEditorModel (with its MarkdownPreviewModel)
  call          \* a call of a function of internal/utils and what it returned

vars ==
  <<store, writes, pending, status, currentView, notesList, noteEditor, call>>

\* the program itself calls neither FuzzyMatch nor FuzzySearch
NoCall == [fn |-> "none"]

ViewNotesList == "ViewNotesList"
ViewNoteEditor == "ViewNoteEditor"
ViewHelp == "ViewHelp"

\* the commands the handlers return
CmdLoadNotes == [type |-> "cmd", name |-> "loadNotes"]
CmdLoadAvailableTags == [type |-> "cmd", name |-> "loadAvailableTags"]
CmdSaveNote == [type |-> "cmd", name |-> "saveNote"]
CmdQuit == [type |-> "cmd", name |-> "Quit"]
CmdDeleteNote(id) == [type |-> "cmd", name |-> "deleteNote", ID |-> id]

\* the messages the commands return
notesLoadedMsg(notes) ==
  [type |-> "msg", name |-> "notesLoadedMsg", notes |-> notes]
tagsLoadedMsg(tags) == [type |-> "msg", name |-> "tagsLoadedMsg", tags |-> tags]
QuitMsg == [type |-> "msg", name |-> "QuitMsg"]

\* ------------------------------------------------------ internal/ui/notes_list.go
\* NewNotesListModel; selectedNote is the ID of the selected note, 0 for nil
NewNotesListModel ==
  [allNotes |-> <<>>, filteredNotes |-> <<>>, selectedNote |-> 0, cursor |-> 0,
   loaded |-> FALSE, searchQuery |-> <<>>, searchMode |-> FALSE]

\* the note a filteredNotes entry points to
NoteAt(L, i) == L.allNotes[L.filteredNotes[i]]

\* the loop of filterNotes over allNotes[i..]: the pointers to the matching notes
RECURSIVE FilterLoop(_, _, _, _)
FilterLoop(allNotes, i, searchTerms, acc) ==
  IF i > Len(allNotes) THEN acc
  ELSE LET titleWords == SplitWords(allNotes[i].Title)
           contentWords == SplitWords(allNotes[i].Content)
       IN IF \/ ContainsAnyWord(searchTerms, titleWords)
             \/ ContainsAnyWord(searchTerms, contentWords)
          THEN FilterLoop(allNotes, i + 1, searchTerms, Append(acc, i))
          ELSE FilterLoop(allNotes, i + 1, searchTerms, acc)

\* filterNotes that shows every note for a query without a search term
filterNotesByTerms(L) ==
  IF SplitWords(L.searchQuery) = <<>>
  THEN [L EXCEPT !.filteredNotes = [i \in 1..Len(L.allNotes) |-> i]]
  ELSE LET matching == FilterLoop(L.allNotes, 1, SplitWords(L.searchQuery), <<>>)
       IN [L EXCEPT !.filteredNotes = matching,
                    !.cursor = IF @ >= Len(matching) THEN 0 ELSE @]

\* NotesListModel.filterNotes
filterNotes(L) ==
  IF L.searchQuery = <<>>
  THEN [L EXCEPT !.filteredNotes = [i \in 1..Len(L.allNotes) |-> i]]
  ELSE LET matching == FilterLoop(L.allNotes, 1, SplitWords(L.searchQuery), <<>>)
       IN [L EXCEPT !.filteredNotes = matching,
                    !.cursor = IF @ >= Len(matching) THEN 0 ELSE @]

\* NotesListModel.setSearchMode
setSearchMode(L, enabled) ==
  IF enabled
  THEN [L EXCEPT !.searchMode = TRUE, !.cursor = 0]
  ELSE filterNotes([L EXCEPT !.searchMode = FALSE, !.searchQuery = <<>>])

\* Update, case notesLoadedMsg, without the call of filterNotes
ListNotesLoadedUnfiltered(L, notes) ==
  [L EXCEPT !.allNotes = notes, !.loaded = TRUE]

\* Update, case notesLoadedMsg
ListNotesLoaded(L, notes) ==
  [filterNotes([L EXCEPT !.allNotes = notes]) EXCEPT !.loaded = TRUE]

\* Update, case tea.KeyMsg, first switch: ctrl+s toggles the search mode
ListToggleSearch(L, k) ==
  IF k = "ctrl+s" THEN setSearchMode(L, ~L.searchMode) ELSE L

\* Update, case tea.KeyMsg, the search mode branch
ListSearchKey(L, k) ==
  CASE k = "escape" -> setSearchMode(L, FALSE)
    [] k = "backspace" ->
         IF Len(L.searchQuery) > 0
         THEN filterNotes([L EXCEPT !.searchQuery = DropLast(@)])
         ELSE L
    [] k = "enter" -> setSearchMode(L, FALSE)
    [] OTHER ->
         IF Len(k) = 1
         THEN filterNotes([L EXCEPT !.searchQuery = Append(@, k)])
         ELSE L

\* Update, case tea.KeyMsg, the navigation branch: the list afterwards
ListBrowseKey(L, k) ==
  CASE k \in {"up", "k"} ->
         IF L.cursor > 0 THEN [L EXCEPT !.cursor = @ - 1] ELSE L
    [] k \in {"down", "j"} ->
         IF L.cursor < Len(L.filteredNotes) - 1 THEN [L EXCEPT !.cursor = @ + 1] ELSE L
    [] k = "n" -> [L EXCEPT !.selectedNote = 0]
    [] k \in {"e", "enter"} ->
         IF Len(L.filteredNotes) > 0 /\ L.cursor < Len(L.filteredNotes)
         THEN [L EXCEPT !.selectedNote = NoteAt(L, L.cursor + 1).ID]
         ELSE L
    [] k = "d" ->
         IF Len(L.filteredNotes) > 0 THEN [L EXCEPT !.selectedNote = 0] ELSE L
    [] OTHER -> L

\* m.filteredNotes[m.cursor] with the cursor past the end: index out of range
ListKeyPanics(L, k) ==
  /\ ~L.searchMode
  /\ k \in {"e", "enter", "d"}
  /\ Len(L.filteredNotes) > 0
  /\ L.cursor >= Len(L.filteredNotes)

\* ---------------------------------------------------- internal/ui/note_editor.go
\* m.note: the ID of the note object, and whether the object is still the one
\* the list's allNotes points to (a reload gives the list fresh objects)
NoNote == [ID |-> 0, shared |-> FALSE]

\* NewMarkdownPreviewModel
NewMarkdownPreviewModel == [content |-> <<>>, showPreview |-> FALSE]

\* NewNoteEditorModel
NewNoteEditorModel ==
  [note |-> NoNote, title |-> <<>>, content |-> <<>>, focused |-> 0,
   mode |-> "create", tags |-> <<>>, tagInput |-> <<>>, availableTags |-> <<>>,
   tagSuggestions |-> <<>>, showSuggestions |-> FALSE, suggestionCursor |-> 0,
   preview |-> NewMarkdownPreviewModel, splitPane |-> FALSE]

\* NoteEditorModel.SetNote
SetNote(E, n) ==
  [E EXCEPT !.note = [ID |-> n.ID, shared |-> TRUE], !.title = n.Title,
            !.content = n.Content, !.tags = n.Tags, !.focused = 0,
            !.mode = "edit"]

\* NoteEditorModel.Init without the reset of the tag input
EditorInitKeepsTagInput(E, hasNote, n) ==
  IF hasNote THEN SetNote(E, n)
  ELSE [E EXCEPT !.title = <<>>, !.content = <<>>, !.tags = <<>>,
                 !.focused = 0, !.mode = "create"]

\* NoteEditorModel.Init; hasNote is selectedNote != nil
EditorInit(E, hasNote, n) ==
  LET E1 == IF hasNote THEN SetNote(E, n)
            ELSE [E EXCEPT !.title = <<>>, !.content = <<>>, !.tags = <<>>,
                           !.focused = 0, !.mode = "create"]
  IN [E1 EXCEPT !.tagInput = <<>>, !.showSuggestions = FALSE,
                !.suggestionCursor = 0]

\* handleTitleInput
handleTitleInput(E, k) ==
  CASE k = "backspace" ->
         IF Len(E.title) > 0 THEN [E EXCEPT !.title = DropLast(@)] ELSE E
    [] OTHER -> IF Len(k) = 1 THEN [E EXCEPT !.title = Append(@, k)] ELSE E

\* handleContentInput
handleContentInput(E, k) ==
  CASE k = "backspace" ->
         IF Len(E.content) > 0 THEN [E EXCEPT !.content = DropLast(@)] ELSE E
    [] k = "enter" -> [E EXCEPT !.content = Append(@, "\n")]
    [] OTHER -> IF Len(k) = 1 THEN [E EXCEPT !.content = Append(@, k)] ELSE E

\* addTag that puts the tag in front of the others
addTagInFront(E, name) ==
  LET tagName == TrimSpace(name)
  IN IF tagName = <<>> THEN E
     ELSE IF \E i \in DOMAIN E.tags : EqualFold(E.tags[i].Name, tagName) THEN E
     ELSE [E EXCEPT !.tags = <<[ID |-> 0, Name |-> tagName]>> \o @,
                    !.tagInput = <<>>, !.showSuggestions = FALSE,
                    !.suggestionCursor = 0]

\* addTag
addTag(E, name) ==
  LET tagName == TrimSpace(name)
  IN IF tagName = <<>> THEN E
     ELSE IF \E i \in DOMAIN E.tags : EqualFold(E.tags[i].Name, tagName) THEN E
     ELSE [E EXCEPT !.tags = Append(@, [ID |-> 0, Name |-> tagName]),
                    !.tagInput = <<>>, !.showSuggestions = FALSE,
                    !.suggestionCursor = 0]

\* the loop of updateTagSuggestions over availableTags[i..]
RECURSIVE SuggestLoop(_, _, _)
SuggestLoop(E, i, acc) ==
  IF i > Len(E.availableTags) THEN acc
  ELSE LET tag == E.availableTags[i]
           alreadyAdded == \E j \in DOMAIN E.tags : E.tags[j].ID = tag.ID
       IN IF Contains(ToLower(tag.Name), ToLower(E.tagInput)) /\ ~alreadyAdded
          THEN SuggestLoop(E, i + 1, Append(acc, tag.Name))
          ELSE SuggestLoop(E, i + 1, acc)

\* updateTagSuggestions with the threshold at one character
updateTagSuggestionsFromOne(E) ==
  IF Len(E.tagInput) < 1
  THEN [E EXCEPT !.tagSuggestions = <<>>, !.showSuggestions = FALSE]
  ELSE LET found == SuggestLoop(E, 1, <<>>)
       IN [E EXCEPT !.tagSuggestions = found,
                    !.showSuggestions = Len(found) > 0,
                    !.suggestionCursor = 0]

\* updateTagSuggestions showing the list whatever was found
updateTagSuggestionsShown(E) ==
  IF Len(E.tagInput) < 2
  THEN [E EXCEPT !.tagSuggestions = <<>>, !.showSuggestions = FALSE]
  ELSE [E EXCEPT !.tagSuggestions = SuggestLoop(E, 1, <<>>),
                 !.showSuggestions = TRUE,
                 !.suggestionCursor = 0]

\* updateTagSuggestions
updateTagSuggestions(E) ==
  IF Len(E.tagInput) < 2
  THEN [E EXCEPT !.tagSuggestions = <<>>, !.showSuggestions = FALSE]
  ELSE LET found == SuggestLoop(E, 1, <<>>)
       IN [E EXCEPT !.tagSuggestions = found,
                    !.showSuggestions = Len(found) > 0,
                    !.suggestionCursor = 0]

\* handleTagTextInput
handleTagTextInput(E, k) ==
  CASE k = "backspace" ->
         IF Len(E.tagInput) > 0 THEN [E EXCEPT !.tagInput = DropLast(@)] ELSE E
    [] k \in {"enter", " "} ->
         IF Len(E.tagInput) > 0 THEN addTag(E, E.tagInput) ELSE E
    [] OTHER ->
         IF Len(k) = 1
         THEN updateTagSuggestions([E EXCEPT !.tagInput = Append(@, k)])
         ELSE E

\* handleTagInput with a cursor that wraps around
handleTagInputWrap(E, k) ==
  IF E.showSuggestions
  THEN CASE k = "up" ->
              [E EXCEPT !.suggestionCursor = (@ - 1) % Len(E.tagSuggestions)]
         [] k = "down" ->
              [E EXCEPT !.suggestionCursor = (@ + 1) % Len(E.tagSuggestions)]
         [] k = "enter" ->
              LET E1 == IF E.suggestionCursor < Len(E.tagSuggestions)
                        THEN addTag(E, E.tagSuggestions[E.suggestionCursor + 1])
                        ELSE E
              IN [E1 EXCEPT !.showSuggestions = FALSE, !.suggestionCursor = 0]
         [] OTHER ->
              handleTagTextInput(
                [E EXCEPT !.showSuggestions = FALSE, !.suggestionCursor = 0], k)
  ELSE handleTagTextInput(E, k)

\* handleTagInput
handleTagInput(E, k) ==
  IF E.showSuggestions
  THEN CASE k = "up" ->
              IF E.suggestionCursor > 0
              THEN [E EXCEPT !.suggestionCursor = @ - 1] ELSE E
         [] k = "down" ->
              IF E.suggestionCursor < Len(E.tagSuggestions) - 1
              THEN [E EXCEPT !.suggestionCursor = @ + 1] ELSE E
         [] k = "enter" ->
              LET E1 == IF E.suggestionCursor < Len(E.tagSuggestions)
                        THEN addTag(E, E.tagSuggestions[E.suggestionCursor + 1])
                        ELSE E
              IN [E1 EXCEPT !.showSuggestions = FALSE, !.suggestionCursor = 0]
         [] OTHER ->
              handleTagTextInput(
                [E EXCEPT !.showSuggestions = FALSE, !.suggestionCursor = 0], k)
  ELSE handleTagTextInput(E, k)

\* ToggleSplitPane that only opens the split pane
ToggleSplitPaneOn(E) ==
  [E EXCEPT !.splitPane = TRUE, !.preview.showPreview = TRUE,
            !.preview.content = E.content]

\* ToggleSplitPane
ToggleSplitPane(E) ==
  IF ~E.splitPane
  THEN [E EXCEPT !.splitPane = TRUE,
                 !.preview = [content |-> E.content, showPreview |-> TRUE]]
  ELSE [E EXCEPT !.splitPane = FALSE, !.preview.showPreview = FALSE]

\* UpdatePreview
UpdatePreview(E) == [E EXCEPT !.preview.content = E.content]

\* the field keys with a 'tab' that leaves the suggestions as they are
EditorFieldKeyTabKeeps(E, k) ==
  IF k = "ctrl+p" THEN ToggleSplitPane(E)
  ELSE IF k = "tab"
  THEN [E EXCEPT !.focused = (@ + 1) % 3]
  ELSE LET E1 == CASE E.focused = 0 -> handleTitleInput(E, k)
                   [] E.focused = 1 -> handleContentInput(E, k)
                   [] E.focused = 2 -> handleTagInput(E, k)
                   [] OTHER -> E
       IN IF E1.splitPane THEN UpdatePreview(E1) ELSE E1

\* Update, case tea.KeyMsg, after the esc and ctrl+s cases: the editor afterwards
EditorFieldKey(E, k) ==
  IF k = "ctrl+p" THEN ToggleSplitPane(E)
  ELSE IF k = "tab"
  THEN [E EXCEPT !.focused = (@ + 1) % 3, !.showSuggestions = FALSE,
                 !.suggestionCursor = 0]
  ELSE LET E1 == CASE E.focused = 0 -> handleTitleInput(E, k)
                   [] E.focused = 1 -> handleContentInput(E, k)
                   [] E.focused = 2 -> handleTagInput(E, k)
                   [] OTHER -> E
       IN IF E1.splitPane THEN UpdatePreview(E1) ELSE E1

\* ------------------------------------------------------------ internal/ui/app.go
\* What one call of App.Update does: the list, the editor and the view
\* afterwards, the command returned, and whether the handler panicked.
Handled(L, E, v, c) == [l |-> L, e |-> E, v |-> v, c |-> c, panic |-> FALSE]

\* App.SwitchToView(ViewNoteEditor): noteEditor.Init(notesList.selectedNote)
SwitchToEditor(L, E, hasNote, n) ==
  Handled(L, EditorInit(E, hasNote, n), ViewNoteEditor, {CmdLoadAvailableTags})

\* App.SwitchToView(ViewNotesList): notesList.Init()
SwitchToList(L, E) == Handled(L, E, ViewNotesList, {CmdLoadNotes})

\* NotesListModel.Update on a key: both switches, then the command of the
\* navigation branch (new, edit, delete)
ListUpdateKey(L, E, k) ==
  LET L1 == ListToggleSearch(L, k)
  IN IF L1.searchMode
     THEN Handled(ListSearchKey(L1, k), E, ViewNotesList, {})
     ELSE IF ListKeyPanics(L1, k)
     THEN [Handled(L1, E, ViewNotesList, {}) EXCEPT !.panic = TRUE]
     ELSE LET L2 == ListBrowseKey(L1, k)
              some == Len(L1.filteredNotes) > 0
          IN CASE k = "n" -> SwitchToEditor(L2, E, FALSE, NoNote)
               [] k \in {"e", "enter"} /\ some ->
                    SwitchToEditor(L2, E, TRUE, NoteAt(L1, L1.cursor + 1))
               [] k = "d" /\ some ->
                    Handled(L2, E, ViewNotesList,
                            {CmdDeleteNote(NoteAt(L1, L1.cursor + 1).ID)})
               [] OTHER -> Handled(L2, E, ViewNotesList, {})

\* NoteEditorModel.Update on a key
EditorUpdateKey(L, E, k) ==
  CASE k = "esc" ->
         IF E.showSuggestions
         THEN Handled(L, [E EXCEPT !.showSuggestions = FALSE,
                                   !.suggestionCursor = 0], ViewNoteEditor, {})
         ELSE SwitchToList(L, E)
    [] k = "ctrl+s" -> Handled(L, E, ViewNoteEditor, {CmdSaveNote})
    [] OTHER -> Handled(L, EditorFieldKey(E, k), ViewNoteEditor, {})

\* HelpModel.Update on a key
HelpUpdateKey(L, E, k) ==
  IF k \in {"esc", "q", "?"} THEN SwitchToList(L, E)
  ELSE Handled(L, E, ViewHelp, {})

\* App.Update on a key: the global keys first, then the current view
AppUpdateKey(v, L, E, k) ==
  CASE k \in {"ctrl+c", "q"} -> Handled(L, E, v, {CmdQuit})
    [] k = "?" -> Handled(L, E, ViewHelp, {})
    [] k = "esc" /\ v # ViewNotesList -> SwitchToList(L, E)
    [] OTHER ->
         CASE v = ViewNotesList -> ListUpdateKey(L, E, k)
           [] v = ViewNoteEditor -> EditorUpdateKey(L, E, k)
           [] v = ViewHelp -> HelpUpdateKey(L, E, k)

\* ------------------------------------------------------------------ key presses
\* the texts tea.KeyMsg.String() gives for the keys pressed while the list is
\* at work: those pressed in the list, and those pressed in the editor
ListKeys == {"esc", "enter", "backspace", "up", "down", "ctrl+s", "e", "d"}
EditorKeys == {"esc", "ctrl+s", "backspace"}

\* the keys pressed while searching: the global keys 'q' and '?' among them
SearchListKeys ==
  {"esc", "enter", "backspace", "down", "ctrl+s", "e", "d", "q", "?"}
SearchEditorKeys == {"esc"}

\* the keys pressed while a title is edited and saved
SaveListKeys == {"n", "e", "down"}
SaveEditorKeys == {"esc", "backspace", "d", " ", "ctrl+s"}

\* the keys pressed while tags are attached and saved
TagListKeys == {"e"}
TagEditorKeys == {"tab", "d", "enter", "ctrl+s"}

\* the keys pressed while tag suggestions are shown and the editor is left
EscapeEditorKeys == {"tab", "d", "esc"}

\* the keys pressed while tags are typed, suggested, picked and committed
SuggestListKeys == {"e", "down"}
SuggestEditorKeys ==
  {"tab", "d", " ", "up", "down", "enter", "backspace", "esc"}

\* the keys pressed while the preview is toggled and the content edited
PreviewListKeys == {"e", "down"}
PreviewEditorKeys == {"tab", "d", "ctrl+p", "backspace", "enter"}

\* the keys typed into the search query of a list that stays in search mode
FilterKeys == {"e", "d", "D", " ", "backspace"}

\* typing into a buffer either does not make it longer or keeps it within the bound
Within(old, new, max) == IF Len(new) <= Len(old) THEN TRUE ELSE Len(new) <= max

\* A key press: App.Update(tea.KeyMsg) with the command it returns queued.
KeyPress(k) ==
  /\ status = "running"
  /\ LET r == AppUpdateKey(currentView, notesList, noteEditor, k)
     IN /\ IF currentView = ViewNoteEditor
           THEN /\ Within(noteEditor.title, r.e.title, MaxText)
                /\ Within(noteEditor.content, r.e.content, MaxText)
                /\ Within(noteEditor.tagInput, r.e.tagInput, MaxInput)
                /\ Within(noteEditor.tags, r.e.tags, MaxTags)
           ELSE Within(notesList.searchQuery, r.l.searchQuery, MaxInput)
        /\ IF r.c = {} THEN TRUE
           ELSE r.c \cap pending = {} /\ Cardinality(pending) < MaxPending
        /\ status' = IF r.panic THEN "panic" ELSE status
        /\ notesList' = r.l
        /\ noteEditor' = r.e
        /\ currentView' = r.v
        /\ pending' = pending \cup r.c
  /\ UNCHANGED <<store, writes, call>>

\* --------------------------------------------------------------- the commands
\* the note_tags rows of the buffer's tags removed, errors ignored
RECURSIVE RemoveLoop(_, _, _)
RemoveLoop(st, noteID, tags) ==
  IF tags = <<>> THEN st
  ELSE RemoveLoop(IF RemoveTagOk(st, noteID, tags[1].ID)
                  THEN RemoveTag(st, noteID, tags[1].ID) ELSE st,
                  noteID, Tail(tags))

\* the loop over the tags that ends at the first AddTagToNote that fails
RECURSIVE AddLoopAborts(_, _, _, _, _)
AddLoopAborts(st, noteID, tags, i, failAdd) ==
  IF i > Len(tags) \/ i = failAdd THEN st
  ELSE AddLoopAborts(AddTagToNote(st, noteID, tags[i].Name),
                     noteID, tags, i + 1, failAdd)

\* AddTagToNote for tags[i..], the failAdd-th call failing (0: none fails)
RECURSIVE AddLoop(_, _, _, _, _)
AddLoop(st, noteID, tags, i, failAdd) ==
  IF i > Len(tags) THEN st
  ELSE AddLoop(IF i = failAdd THEN st ELSE AddTagToNote(st, noteID, tags[i].Name),
               noteID, tags, i + 1, failAdd)

\* loadNotes: GetAllNotes, an empty list on error
LoadNotes(st, readOk) == notesLoadedMsg(IF readOk THEN GetAllNotes(st) ELSE <<>>)

\* the list's note objects with m.note.Title and m.note.Content assigned
AssignNote(allNotes, E) ==
  [i \in DOMAIN allNotes |->
     IF E.note.shared /\ allNotes[i].ID = E.note.ID
     THEN [allNotes[i] EXCEPT !.Title = E.title, !.Content = E.content]
     ELSE allNotes[i]]

\* the store after saveNote's calls in create mode
SaveCreated(st, E, failAdd) ==
  AddLoop(CreateNote(st, E.title, E.content), st.nextNoteID, E.tags, 1, failAdd)

\* the store after saveNote's calls in edit mode
SaveEdited(st, E, failAdd) ==
  AddLoop(RemoveLoop(UpdateNote(st, E.note.ID, E.title, E.content),
                     E.note.ID, E.tags),
          E.note.ID, E.tags, 1, failAdd)

\* the command returned by loadNotes runs
RunLoadNotes(readOk) ==
  /\ status = "running"
  /\ CmdLoadNotes \in pending
  /\ pending' = (pending \ {CmdLoadNotes}) \cup {LoadNotes(store, readOk)}
  /\ UNCHANGED <<store, writes, status, currentView, notesList, noteEditor, call>>

\* the command returned by loadAvailableTags runs
RunLoadAvailableTags(readOk) ==
  /\ status = "running"
  /\ CmdLoadAvailableTags \in pending
  /\ pending' = (pending \ {CmdLoadAvailableTags})
                  \cup {tagsLoadedMsg(IF readOk THEN GetAllTags(store) ELSE <<>>)}
  /\ UNCHANGED <<store, writes, status, currentView, notesList, noteEditor, call>>

\* the command returned by deleteNote runs
RunDeleteNote(c, writeOk, readOk) ==
  /\ status = "running"
  /\ c \in pending
  /\ c.name = "deleteNote"
  /\ IF writeOk /\ writes < MaxWrites /\ NoteStored(store, c.ID)
     THEN /\ store' = DeleteNote(store, c.ID)
          /\ writes' = writes + 1
          /\ pending' = (pending \ {c}) \cup {LoadNotes(store', readOk)}
     ELSE /\ pending' = pending \ {c}
          /\ UNCHANGED <<store, writes>>
  /\ UNCHANGED <<status, currentView, notesList, noteEditor, call>>

\* tea.Quit runs
RunQuit ==
  /\ status = "running"
  /\ CmdQuit \in pending
  /\ pending' = (pending \ {CmdQuit}) \cup {QuitMsg}
  /\ UNCHANGED <<store, writes, status, currentView, notesList, noteEditor, call>>

\* the command returned by saveNote runs
RunSaveNote(writeOk, failAdd, readOk) ==
  /\ status = "running"
  /\ CmdSaveNote \in pending
  /\ failAdd \in 0..Len(noteEditor.tags)
  /\ LET E == noteEditor
         done == pending \ {CmdSaveNote}
     IN IF TrimSpace(E.title) = <<>>
        THEN /\ pending' = done
             /\ UNCHANGED <<store, writes, currentView, notesList>>
        ELSE IF E.mode = "create"
        THEN IF writeOk /\ writes < MaxWrites
             THEN /\ store' = SaveCreated(store, E, failAdd)
                  /\ writes' = writes + 1
                  /\ currentView' = ViewNotesList
                  /\ pending' = done \cup {LoadNotes(store', readOk)}
                  /\ UNCHANGED notesList
             ELSE /\ pending' = done
                  /\ UNCHANGED <<store, writes, currentView, notesList>>
        ELSE IF E.note = NoNote
        THEN /\ currentView' = ViewNotesList
             /\ pending' = done \cup {LoadNotes(store, readOk)}
             /\ UNCHANGED <<store, writes, notesList>>
        ELSE /\ notesList' = [notesList EXCEPT !.allNotes = AssignNote(@, E)]
             /\ IF writeOk /\ writes < MaxWrites /\ NoteStored(store, E.note.ID)
                THEN /\ store' = SaveEdited(store, E, failAdd)
                     /\ writes' = writes + 1
                     /\ currentView' = ViewNotesList
                     /\ pending' = done \cup {LoadNotes(store', readOk)}
                ELSE /\ pending' = done
                     /\ UNCHANGED <<store, writes, currentView>>
  /\ UNCHANGED <<status, noteEditor, call>>

\* --------------------------------------------------------------- the messages
\* App.Update(notesLoadedMsg): routed to the current view; only the list takes it
DeliverNotesLoaded(m) ==
  /\ status = "running"
  /\ m \in pending
  /\ m.name = "notesLoadedMsg"
  /\ pending' = pending \ {m}
  /\ IF currentView = ViewNotesList
     THEN /\ notesList' = ListNotesLoaded(notesList, m.notes)
          /\ noteEditor' = [noteEditor EXCEPT !.note.shared = FALSE]
     ELSE UNCHANGED <<notesList, noteEditor>>
  /\ UNCHANGED <<store, writes, status, currentView, call>>

\* App.Update(tagsLoadedMsg): routed to the current view; only the editor takes it
DeliverTagsLoaded(m) ==
  /\ status = "running"
  /\ m \in pending
  /\ m.name = "tagsLoadedMsg"
  /\ pending' = pending \ {m}
  /\ IF currentView = ViewNoteEditor
     THEN noteEditor' = [noteEditor EXCEPT !.availableTags = m.tags]
     ELSE UNCHANGED noteEditor
  /\ UNCHANGED <<store, writes, status, currentView, notesList, call>>

\* the runtime receives tea.QuitMsg and ends the program
DeliverQuit ==
  /\ status = "running"
  /\ QuitMsg \in pending
  /\ status' = "quit"
  /\ pending' = pending \ {QuitMsg}
  /\ UNCHANGED <<store, writes, currentView, notesList, noteEditor, call>>

\* ------------------------------------------------------------ the specification
\* the database the program is started on: two notes, the older one tagged
InitStore ==
  [notes |-> << [ID |-> 2, Title |-> <<"d">>, Content |-> <<>>],
                [ID |-> 1, Title |-> <<"E", "d">>, Content |-> <<"e">>] >>,
   tags |-> << [ID |-> 1, Name |-> <<"d", "d">>],
               [ID |-> 2, Name |-> <<"D", "d">>] >>,
   noteTags |-> {<<1, 1>>},
   nextNoteID |-> 3,
   nextTagID |-> 3]

\* NewApp, then App.Init: the first loadNotes command is queued
Init ==
  /\ store = InitStore
  /\ writes = 0
  /\ pending = {CmdLoadNotes}
  /\ status = "running"
  /\ currentView = ViewNotesList
  /\ notesList = NewNotesListModel
  /\ noteEditor = NewNoteEditorModel
  /\ call = NoCall

\* a load command runs; OK holds the outcomes a store call may have (TRUE: the
\* call succeeds)
Load(OK) ==
  \/ \E readOk \in OK : RunLoadNotes(readOk)
  \/ \E readOk \in OK : RunLoadAvailableTags(readOk)

\* a delete command runs
Delete(OK) ==
  \E c \in pending, writeOk \in OK, readOk \in OK : RunDeleteNote(c, writeOk, readOk)

\* a save command runs; FA holds the tag associations that may fail (0: none)
Save(OK, FA) ==
  \E writeOk \in OK, readOk \in OK, failAdd \in FA :
    RunSaveNote(writeOk, failAdd, readOk)

\* the program is asked to quit, and quits
Quit == RunQuit \/ DeliverQuit

\* a loaded message is delivered to App.Update
Deliver ==
  \/ \E m \in pending : DeliverNotesLoaded(m)
  \/ \E m \in pending : DeliverTagsLoaded(m)

\* a key of KL is pressed while the list or the help is the current view, or a
\* key of KE while the editor is
Press(KL, KE) ==
  \E k \in KL \cup KE :
    /\ k \in (IF currentView = ViewNoteEditor THEN KE ELSE KL)
    /\ KeyPress(k)

\* the list at work: moving, searching, deleting, and editing a title
Next ==
  \/ Press(ListKeys, EditorKeys)
  \/ Load({TRUE})
  \/ Delete({TRUE})
  \/ Save({TRUE}, {0})
  \/ Deliver

Spec == Init /\ [][Next]_vars

\* searching, with the keys App.Update takes for itself
NextSearch ==
  \/ Press(SearchListKeys, SearchEditorKeys)
  \/ Load({TRUE})
  \/ Delete({TRUE})
  \/ Quit
  \/ Deliver

SpecSearch == Init /\ [][NextSearch]_vars

\* a note is created or edited, its title typed, and saved; the write may fail
NextSave ==
  \/ Press(SaveListKeys, SaveEditorKeys)
  \/ Load({TRUE})
  \/ Save(BOOLEAN, {0})
  \/ Deliver

SpecSave == Init /\ [][NextSave]_vars

\* a note is edited, tags are typed or picked, and the note is saved
NextTags ==
  \/ Press(TagListKeys, TagEditorKeys)
  \/ Load({TRUE})
  \/ Save({TRUE}, {0})
  \/ Deliver

SpecTags == Init /\ [][NextTags]_vars

\* the tag associations of a save that may fail: none, or the one of a tag of
\* the buffer
FailingAdds == 0..MaxTags

\* a note is edited, tags are typed or picked, and the note is saved with a
\* tag association that may fail
NextTagFail ==
  \/ Press(TagListKeys, TagEditorKeys)
  \/ Load({TRUE})
  \/ Save({TRUE}, FailingAdds)
  \/ Deliver

SpecTagFail == Init /\ [][NextTagFail]_vars

\* the keys pressed while the notes are reloaded: deleting, searching, and
\* entering and leaving the editor
ReloadListKeys == {"ctrl+s", "d", "e", "down"}
ReloadEditorKeys == {"esc"}

\* the notes are reloaded, and the store may fail to read them
NextReload ==
  \/ Press(ReloadListKeys, ReloadEditorKeys)
  \/ Load(BOOLEAN)
  \/ Delete({TRUE})
  \/ Deliver

SpecReload == Init /\ [][NextReload]_vars

\* the keys pressed while the preview is toggled, the editor left and entered
\* again
ReenterListKeys == {"n", "e", "down"}
ReenterEditorKeys == {"ctrl+p", "esc", "tab", "d"}

\* the preview is toggled and the editor is left and entered again
NextReenter ==
  \/ Press(ReenterListKeys, ReenterEditorKeys)
  \/ Load({TRUE})
  \/ Deliver

SpecReenter == Init /\ [][NextReenter]_vars

\* a note is edited, a tag is typed, and escape is pressed
NextEscape ==
  \/ Press(TagListKeys, EscapeEditorKeys)
  \/ Load({TRUE})
  \/ Deliver

SpecEscape == Init /\ [][NextEscape]_vars

\* a note is edited and tags are typed, suggested, picked and committed
NextSuggest ==
  \/ Press(SuggestListKeys, SuggestEditorKeys)
  \/ Load({TRUE})
  \/ Deliver

SpecSuggest == Init /\ [][NextSuggest]_vars

\* a note is edited with the preview toggled
NextPreview ==
  \/ Press(PreviewListKeys, PreviewEditorKeys)
  \/ Load({TRUE})
  \/ Deliver

SpecPreview == Init /\ [][NextPreview]_vars

\* the texts of the notes the filter is applied to
FilterTitles == {<<"d">>, <<"E", "d">>, <<"e", " ", "d">>, <<"1">>}
FilterContents == {<<>>, <<"d", "e">>}
MaxFilterNotes == 2

\* the stores of at most MaxFilterNotes untagged notes with these texts
FilterStores ==
  UNION {{[InitStore EXCEPT !.notes = ns, !.noteTags = {}, !.nextNoteID = n + 1] :
            ns \in {f \in [1..n -> [ID : 1..n, Title : FilterTitles,
                                      Content : FilterContents]] :
                      \A i \in 1..n : f[i].ID = n + 1 - i}} :
         n \in 0..MaxFilterNotes}

\* the program with its notes loaded and ctrl+s pressed: the list in search
\* mode, the query still empty
InitFilter ==
  /\ store \in FilterStores
  /\ writes = 0
  /\ pending = {}
  /\ status = "running"
  /\ currentView = ViewNotesList
  /\ notesList =
       setSearchMode(ListNotesLoaded(NewNotesListModel, GetAllNotes(store)), TRUE)
  /\ noteEditor = NewNoteEditorModel
  /\ call = NoCall

\* the query is typed and erased
NextFilter == Press(FilterKeys, {})

SpecFilter == InitFilter /\ [][NextFilter]_vars

\* -------------------------------------------------- the calls of internal/utils
\* the texts of at most n of the characters of cs
TextsOf(cs, n) == UNION {[1..m -> cs] : m \in 0..n}

\* the patterns and the texts the functions are called on
FuzzyPatterns == TextsOf({"d", "e", "D"}, MaxPattern)
FuzzyTexts == TextsOf({"d", "e", "D"}, MaxCandidate)
FuzzyCandidates == TextsOf({"d", "e"}, MaxCandidate)

\* the program at rest, as constructed and with nothing in flight
AtRest ==
  /\ store = InitStore
  /\ writes = 0
  /\ pending = {}
  /\ status = "running"
  /\ currentView = ViewNotesList
  /\ notesList = NewNotesListModel
  /\ noteEditor = NewNoteEditorModel

\* a caller is about to call FuzzyMatch(pattern, text)
InitFuzzyMatch ==
  /\ AtRest
  /\ call \in [fn : {"FuzzyMatch"}, pattern : FuzzyPatterns, text : FuzzyTexts,
               returned : {FALSE}, score : {0}]

\* FuzzyMatch runs and returns
CallFuzzyMatch ==
  /\ call.fn = "FuzzyMatch"
  /\ ~call.returned
  /\ call' = [call EXCEPT !.returned = TRUE,
                          !.score = FuzzyMatch(call.pattern, call.text)]
  /\ UNCHANGED <<store, writes, pending, status, currentView, notesList,
                 noteEditor>>

NextFuzzyMatch == CallFuzzyMatch

SpecFuzzyMatch == InitFuzzyMatch /\ [][NextFuzzyMatch]_vars

\* a caller is about to call FuzzySearch(pattern, texts)
InitFuzzySearch ==
  /\ AtRest
  /\ call \in [fn : {"FuzzySearch"}, pattern : FuzzyPatterns,
               texts : UNION {[1..n -> FuzzyCandidates] : n \in 0..MaxCandidates},
               returned : {FALSE}, results : {<<>>}]

\* FuzzySearch runs and returns
CallFuzzySearch ==
  /\ call.fn = "FuzzySearch"
  /\ ~call.returned
  /\ call' = [call EXCEPT !.returned = TRUE,
                          !.results = FuzzySearch(call.pattern, call.texts)]
  /\ UNCHANGED <<store, writes, pending, status, currentView, notesList,
                 noteEditor>>

NextFuzzySearch == CallFuzzySearch

SpecFuzzySearch == InitFuzzySearch /\ [][NextFuzzySearch]_vars

\* the texts SplitWords is called on, and the example of its contract
SplitTexts == TextsOf({"d", "D", "1", "_", " "}, MaxSplit)
HelloWorld ==
  <<"H", "e", "l", "l", "o", ",", " ", "W", "o", "r", "l", "d", "!", " ",
    "1", "2", "3">>

\* a caller is about to call SplitWords(text)
InitSplitWords ==
  /\ AtRest
  /\ call \in [fn : {"SplitWords"}, text : SplitTexts \cup {HelloWorld},
               returned : {FALSE}, words : {<<>>}]

\* SplitWords runs and returns
CallSplitWords ==
  /\ call.fn = "SplitWords"
  /\ ~call.returned
  /\ call' = [call EXCEPT !.returned = TRUE, !.words = SplitWords(call.text)]
  /\ UNCHANGED <<store, writes, pending, status, currentView, notesList,
                 noteEditor>>

NextSplitWords == CallSplitWords

SpecSplitWords == InitSplitWords /\ [][NextSplitWords]_vars

\* ------------------------------------------------ the calls of the storage service
\* the arguments the service is called with
StoreTitles == {<<"d">>, <<"E", "d">>}
StoreContents == {<<>>, <<"e">>}
StoreNames == {<<"d", "d">>, <<"e">>}
StoreQueries == {<<>>, <<"D">>, <<"e">>}
StoreLimits == {0, 1}
NoteIDs == {1, 2, 3}
TagIDs == {1, 2, 3}

\* the program at rest on its database, no call of the service made yet
InitService == AtRest /\ call = NoCall

\* a call c of the service returns and leaves the store st; writes counts the
\* calls
Called(c, st) ==
  /\ writes < MaxCalls
  /\ writes' = writes + 1
  /\ store' = st
  /\ call' = c @@ [before |-> store]
  /\ UNCHANGED <<pending, status, currentView, notesList, noteEditor>>

\* result.LastInsertId() of the INSERT INTO notes that led to st
LastInsertId(st) == st.nextNoteID - 1

SvcCreateNote ==
  \E title \in StoreTitles, content \in StoreContents :
    LET st == CreateNote(store, title, content)
    IN Called([fn |-> "CreateNote", title |-> title, content |-> content,
               err |-> FALSE,
               note |-> [ID |-> LastInsertId(st), Title |-> title,
                         Content |-> content]], st)

SvcGetNote ==
  \E id \in NoteIDs :
    Called([fn |-> "GetNote", id |-> id, err |-> ~NoteStored(store, id),
            note |-> GetNote(store, id)], store)

SvcUpdateNote ==
  \E id \in NoteIDs, title \in StoreTitles :
    Called([fn |-> "UpdateNote", id |-> id, title |-> title,
            err |-> UpdateFails(store, id)],
           IF UpdateFails(store, id) THEN store
           ELSE UpdateNote(store, id, title, <<>>))

SvcDeleteNote ==
  \E id \in NoteIDs :
    Called([fn |-> "DeleteNote", id |-> id, err |-> DeleteFails(store, id)],
           IF DeleteFails(store, id) THEN store ELSE DeleteNote(store, id))

SvcSearchNotes ==
  \E query \in StoreQueries, limit \in StoreLimits :
    Called([fn |-> "SearchNotes", query |-> query, limit |-> limit,
            err |-> FALSE, notes |-> SearchNotes(store, query, limit)], store)

SvcCreateTag ==
  \E name \in StoreNames :
    Called([fn |-> "CreateTag", name |-> name,
            err |-> TagCreateFails(store, name)],
           IF TagCreateFails(store, name) THEN store
           ELSE TagCreate(store, name))

SvcAddTagToNote ==
  \E id \in NoteIDs, name \in StoreNames :
    Called([fn |-> "AddTagToNote", id |-> id, name |-> name,
            err |-> AddTagToNoteFails(store, id, name)],
           IF GetOrCreateTagFails(store, name) THEN store
           ELSE IF AddTagToNoteFails(store, id, name)
           THEN GetOrCreateTag(store, name)
           ELSE AddTagToNote(store, id, name))

SvcRemoveTagFromNote ==
  \E id \in NoteIDs, tagID \in TagIDs :
    Called([fn |-> "RemoveTagFromNote", id |-> id, tagID |-> tagID,
            err |-> RemoveTagFails(store, id, tagID)],
           IF RemoveTagFails(store, id, tagID) THEN store
           ELSE RemoveTag(store, id, tagID))

NextService ==
  \/ SvcCreateNote
  \/ SvcGetNote
  \/ SvcUpdateNote
  \/ SvcDeleteNote
  \/ SvcSearchNotes
  \/ SvcCreateTag
  \/ SvcAddTagToNote
  \/ SvcRemoveTagFromNote

SpecService == InitService /\ [][NextService]_vars

\* ------------------------------------------------------------ the list's claims
\* the list is shown in search-entry mode and the program takes keys
Searching ==
  status = "running" /\ currentView = ViewNotesList /\ notesList.searchMode

\* what App.Update makes of key k in the current state
OnKey(k) == AppUpdateKey(currentView, notesList, noteEditor, k)

\* the pointers to all the notes of the full set, in its order
Everything(L) == [i \in 1..Len(L.allNotes) |-> i]

\* C1: in every reachable state of the list the cursor is 0 when the filtered
\* set is empty, and otherwise an index of the filtered set.
C1_CursorInBounds ==
  IF notesList.filteredNotes = <<>>
  THEN notesList.cursor = 0
  ELSE notesList.cursor \in 0 .. Len(notesList.filteredNotes) - 1

\* C3: in search-entry mode the escape key returns the list to browse mode,
\* clears the query and makes the filtered set the full set in its order.
C3_EscapeCancelsSearch ==
  Searching =>
    LET r == OnKey("esc")
    IN /\ r.v = ViewNotesList
       /\ ~r.l.searchMode
       /\ r.l.searchQuery = <<>>
       /\ r.l.filteredNotes = Everything(r.l)

\* C4: in search-entry mode the enter key returns the list to browse mode and
\* leaves the query and the filtered set as they were.
C4_EnterKeepsQuery ==
  Searching =>
    LET r == OnKey("enter")
    IN /\ r.v = ViewNotesList
       /\ ~r.l.searchMode
       /\ r.l.searchQuery = notesList.searchQuery
       /\ r.l.filteredNotes = notesList.filteredNotes

\* the single-character keys of C5, and all its keys
SearchChars == LowerLetters \cup UpperLetters \cup Digits \cup {"q", "?"}
SearchKeys == SearchChars \cup SearchListKeys

\* C5: in search-entry mode every single-character key, 'q' and '?' included,
\* appends itself to the query and re-filters, backspace removes the last
\* character of the query and re-filters, and no key moves the cursor or
\* leaves the list view.
C5_SearchTakesEveryKey ==
  Searching =>
    /\ \A k \in SearchChars :
         OnKey(k).l = filterNotes([notesList EXCEPT !.searchQuery = Append(@, k)])
    /\ OnKey("backspace").l =
         filterNotes([notesList EXCEPT !.searchQuery = DropLast(@)])
    /\ \A k \in SearchKeys :
         OnKey(k).l.cursor = notesList.cursor /\ OnKey(k).v = ViewNotesList

\* C7: in every reachable state of the list the filtered set is the filter
\* applied to the current full set and the current query.
C7_FilteredIsFilterOfAll ==
  notesList.filteredNotes = filterNotes(notesList).filteredNotes

\* C6 ----------------------------------------------------------------------
\* the tokens of a text: its maximal runs of letters and digits, lower-cased
TokensOf(text) ==
  {ToLower(SubSeq(text, i, j)) : <<i, j>> \in
     {p \in (1..Len(text)) \X (1..Len(text)) :
        /\ p[1] <= p[2]
        /\ \A k \in p[1]..p[2] : IsAlnum(text[k])
        /\ (p[1] = 1 \/ ~IsAlnum(text[p[1] - 1]))
        /\ (p[2] = Len(text) \/ ~IsAlnum(text[p[2] + 1]))}}

\* a occurs in b
IsSubstring(a, b) ==
  \E i \in 0..Len(b) : \E j \in i..Len(b) : SubSeq(b, i + 1, j) = a

\* some token of the query and some token of the note's title or content
\* contain one another
NoteMatches(n, query) ==
  \E t \in TokensOf(query) : \E w \in TokensOf(n.Title) \cup TokensOf(n.Content) :
    IsSubstring(t, w) \/ IsSubstring(w, t)

Editing == status = "running" /\ currentView = ViewNoteEditor

\* C2: in the editor, escape with the tag suggestions visible only hides them:
\* the editor stays the current view and title, content, tags, tag input and
\* focus are unchanged; escape with the suggestions hidden returns to the list.
C2_EscapeHidesSuggestionsFirst ==
  Editing =>
    LET r == OnKey("esc")
    IN IF noteEditor.showSuggestions
       THEN /\ r.v = ViewNoteEditor
            /\ ~r.e.showSuggestions
            /\ r.e.title = noteEditor.title
            /\ r.e.content = noteEditor.content
            /\ r.e.tags = noteEditor.tags
            /\ r.e.tagInput = noteEditor.tagInput
            /\ r.e.focused = noteEditor.focused
       ELSE r.v = ViewNotesList

\* a step in which the command returned by saveNote runs
SaveStep ==
  \E writeOk \in BOOLEAN, readOk \in BOOLEAN, failAdd \in 0..MaxTags :
    RunSaveNote(writeOk, failAdd, readOk)

\* a text of white space only, the empty text included
Blank(text) == \A i \in DOMAIN text : text[i] \in Whitespace

Stored(st, id) == {i \in DOMAIN st.notes : st.notes[i].ID = id}

\* row i of st holds the editor's title and content
HoldsBuffers(st, i) ==
  st.notes[i].Title = noteEditor.title /\ st.notes[i].Content = noteEditor.content

TagNamesOf(st, id) ==
  {st.tags[i].Name : i \in {j \in DOMAIN st.tags : <<id, st.tags[j].ID>> \in st.noteTags}}

\* C10: after an edit-mode save the tags associated with the note in the store
\* are the tags whose names the editor's buffer holds.
C10_StoredTagsAreTheBuffer ==
  [][SaveStep /\ writes' # writes /\ noteEditor.mode = "edit" =>
       TagNamesOf(store', noteEditor.note.ID) =
         {noteEditor.tags[i].Name : i \in DOMAIN noteEditor.tags}]_vars

\* ------------------------------------------------------- the tag field's claims
\* the texts that may stand in the tag input
TagTexts == UNION {[1..n -> {"d", "D"}] : n \in 0..MaxInput}

\* the names in a list of tags
NamesOf(tags) == {tags[i].Name : i \in DOMAIN tags}

\* C11: once a tag has been attached by confirming it from the suggestion
\* list, no later recomputation of the suggestions holds it, whatever the tag
\* input is.
C11_PickedTagIsNotSuggestedAgain ==
  (Editing /\ noteEditor.showSuggestions) =>
    LET picked == noteEditor.tagSuggestions[noteEditor.suggestionCursor + 1]
        E1 == OnKey("enter").e
    IN picked \in NamesOf(E1.tags) =>
         \A t \in TagTexts :
           LET again == updateTagSuggestions([E1 EXCEPT !.tagInput = t]).tagSuggestions
           IN \A i \in DOMAIN again : again[i] # picked

\* the characters a key press can put into a buffer of the editor
TypedChars == LowerLetters \cup UpperLetters \cup Digits

\* C12: the suggestions are never visible while the tag input holds fewer
\* than 2 characters; and typing a character that makes the tag input 2 or
\* more characters long and a case-insensitive substring of the name of a
\* known tag that is not attached shows the suggestions, the cursor at 0.
C12_SuggestionsFromTwoCharacters ==
  /\ noteEditor.showSuggestions => Len(noteEditor.tagInput) >= 2
  /\ (Editing /\ noteEditor.focused = 2) =>
       \A k \in TypedChars :
         LET typed == Append(noteEditor.tagInput, k)
             known == NamesOf(noteEditor.availableTags)
             r == OnKey(k).e
         IN /\ r.tagInput = typed
            /\ Len(typed) < 2 => ~r.showSuggestions
            /\ (/\ Len(typed) >= 2
                /\ \E name \in known \ NamesOf(noteEditor.tags) :
                     IsSubstring(ToLower(typed), ToLower(name)))
               => (r.showSuggestions /\ r.suggestionCursor = 0)

\* two characters typed, both known tags suggested
C12_Witness ==
  /\ Editing
  /\ noteEditor.showSuggestions
  /\ noteEditor.tagInput = <<"d", "d">>
  /\ noteEditor.tagSuggestions = << <<"D", "d">>, <<"d", "d">> >>
  /\ noteEditor.suggestionCursor = 0

\* C13: whenever the suggestions are visible the suggestion list is not empty
\* and the suggestion cursor is an index of it.
C13_VisibleSuggestionsAreIndexed ==
  noteEditor.showSuggestions =>
    /\ noteEditor.tagSuggestions # <<>>
    /\ noteEditor.suggestionCursor \in 0 .. Len(noteEditor.tagSuggestions) - 1

\* the suggestions are visible on a note loaded with a tag, which is left out
C13_Witness ==
  /\ Editing
  /\ noteEditor.showSuggestions
  /\ noteEditor.tags # <<>>
  /\ Len(noteEditor.tagSuggestions) = 1
  /\ noteEditor.availableTags # <<>>

\* C14: while the suggestions are visible, 'down' moves the cursor one down
\* unless it is at the last suggestion and 'up' one up unless it is at 0;
\* neither wraps around nor changes the tag input, the attached tags or the
\* visibility.
C14_CursorMovesAreClamped ==
  (Editing /\ noteEditor.showSuggestions) =>
    LET c == noteEditor.suggestionCursor
        last == Len(noteEditor.tagSuggestions) - 1
        down == OnKey("down")
        up == OnKey("up")
    IN /\ down.e.suggestionCursor = IF c = last THEN c ELSE c + 1
       /\ up.e.suggestionCursor = IF c = 0 THEN c ELSE c - 1
       /\ \A r \in {down, up} :
            /\ r.v = ViewNoteEditor
            /\ r.e.tagInput = noteEditor.tagInput
            /\ r.e.tags = noteEditor.tags
            /\ r.e.tagSuggestions = noteEditor.tagSuggestions
            /\ r.e.showSuggestions

\* the cursor has been moved to the second of two suggestions
C14_Witness ==
  /\ Editing
  /\ noteEditor.showSuggestions
  /\ Len(noteEditor.tagSuggestions) = 2
  /\ noteEditor.suggestionCursor = 1

\* the positions of a list of tags whose name equals name, case folded
SameName(tags, name) == {i \in DOMAIN tags : EqualFold(tags[i].Name, name)}

\* C15: with the focus on the tags and the suggestions hidden, space or enter
\* on a tag input that is not empty leaves the tag input empty and the
\* attached tags holding the trimmed name exactly once, case folded: appended
\* if it was absent, the list as it was if it was there; on an empty tag input
\* the key changes nothing.
C15_CommitClearsTheTagInput ==
  (Editing /\ noteEditor.focused = 2 /\ ~noteEditor.showSuggestions) =>
    \A k \in {" ", "enter"} :
      LET name == TrimSpace(noteEditor.tagInput)
          r == OnKey(k)
      IN IF noteEditor.tagInput = <<>>
         THEN r.e = noteEditor /\ r.v = currentView /\ r.l = notesList
         ELSE /\ r.e.tagInput = <<>>
              /\ Cardinality(SameName(r.e.tags, name)) = 1
              /\ IF SameName(noteEditor.tags, name) = {}
                 THEN /\ Len(r.e.tags) = Len(noteEditor.tags) + 1
                      /\ SubSeq(r.e.tags, 1, Len(noteEditor.tags)) = noteEditor.tags
                      /\ r.e.tags[Len(r.e.tags)].Name = name
                 ELSE r.e.tags = noteEditor.tags

\* the texts of the keys a user can press
AllKeys ==
  TypedChars \cup {"q", "?", " ", "esc", "enter", "backspace", "up", "down",
                   "tab", "ctrl+s", "ctrl+p", "ctrl+c"}

\* C16: the focus of the editor is the title, the content or the tags; in the
\* editor, 'tab' moves it title -> content -> tags -> title and hides the
\* suggestions, and no other key changes it.
C16_FocusRing ==
  /\ noteEditor.focused \in {0, 1, 2}
  /\ Editing =>
       LET tab == OnKey("tab")
       IN /\ tab.v = ViewNoteEditor
          /\ tab.e.focused = CASE noteEditor.focused = 0 -> 1
                               [] noteEditor.focused = 1 -> 2
                               [] noteEditor.focused = 2 -> 0
          /\ ~tab.e.showSuggestions
          /\ \A k \in AllKeys \ {"tab"} :
               OnKey(k).e.focused = noteEditor.focused

\* the focus is back on the title after the tag input was typed in
C16_Witness ==
  /\ Editing
  /\ noteEditor.focused = 0
  /\ noteEditor.tagInput # <<>>

\* the buffer of the editor E that has the focus, the title or the content
FocusedText(E) == IF E.focused = 0 THEN E.title ELSE E.content

\* C17: in the editor with the focus on the title or on the content, every
\* key of one character, 'q' and '?' among them, is appended to the focused
\* buffer and leaves the editor the current view; backspace removes the last
\* character; enter appends a newline to the content and changes nothing in
\* the title.
C17_FieldTakesEveryCharacter ==
  (Editing /\ noteEditor.focused \in {0, 1}) =>
    /\ \A k \in TypedChars \cup {"q", "?"} :
         /\ OnKey(k).v = ViewNoteEditor
         /\ FocusedText(OnKey(k).e) = Append(FocusedText(noteEditor), k)
    /\ FocusedText(OnKey("backspace").e) = DropLast(FocusedText(noteEditor))
    /\ OnKey("enter").e.title = noteEditor.title
    /\ OnKey("enter").e.content =
         IF noteEditor.focused = 0 THEN noteEditor.content
         ELSE Append(noteEditor.content, "\n")

\* what the preview toggle has to leave alone in the editor
FieldState(E) ==
  <<E.focused, E.title, E.content, E.tags, E.tagInput, E.tagSuggestions,
    E.suggestionCursor, E.showSuggestions>>

\* C18: in the editor, the preview toggle flips the split-pane flag, a second
\* toggle restores it, and the focus, the title, the content, the attached
\* tags, the tag input, the suggestions, their cursor and their visibility
\* stay as they are.
C18_ToggleFlipsOnlyTheSplitPane ==
  Editing =>
    LET once == OnKey("ctrl+p")
        twice == AppUpdateKey(once.v, once.l, once.e, "ctrl+p")
    IN /\ once.v = ViewNoteEditor
       /\ once.e.splitPane = ~noteEditor.splitPane
       /\ FieldState(once.e) = FieldState(noteEditor)
       /\ twice.v = ViewNoteEditor
       /\ twice.e.splitPane = noteEditor.splitPane
       /\ FieldState(twice.e) = FieldState(noteEditor)

\* the split pane is open while the suggestions are visible
C18_Witness ==
  /\ Editing
  /\ noteEditor.splitPane
  /\ noteEditor.showSuggestions
  /\ noteEditor.content # <<>>

\* ----------------------------------------------------- the claims on fuzzy.go
\* p can be read off t from left to right, characters of t skipped at will
IsSubsequence(p, t) ==
  \E at \in [DOMAIN p -> DOMAIN t] :
    /\ \A i \in DOMAIN p : t[at[i]] = p[i]
    /\ \A i, j \in DOMAIN p : i < j => at[i] < at[j]

\* FuzzyMatch has returned
MatchReturned == call.fn = "FuzzyMatch" /\ call.returned

\* C19: for a pattern that is not empty, FuzzyMatch returns 0 exactly when the
\* lower-cased pattern is not a subsequence of the lower-cased text, and a
\* score above 0 exactly when it is.
C19_ScoreIsZeroIffNoSubsequence ==
  (MatchReturned /\ call.pattern # <<>>) =>
    LET within == IsSubsequence(ToLower(call.pattern), ToLower(call.text))
    IN /\ call.score = 0 <=> ~within
       /\ call.score > 0 <=> within

\* an upper-case pattern found with a gap in a longer text
C19_Witness ==
  /\ MatchReturned
  /\ call.pattern = <<"D", "e">>
  /\ call.text = <<"d", "D", "e">>
  /\ call.score = 10 + 10 + 33

\* FuzzySearch has returned
SearchReturned == call.fn = "FuzzySearch" /\ call.returned

\* how often x stands in the sequence s
Occurrences(s, x) == Cardinality({i \in DOMAIN s : s[i] = x})

\* C20: FuzzySearch returns the candidates whose score is not 0, each as often
\* as it was handed in, each with its FuzzyMatch score, and no result before
\* one of a higher score.
C20_ResultsAreTheMatchesByScore ==
  SearchReturned =>
    LET R == call.results
        texts == call.texts
    IN /\ \A i \in DOMAIN R :
            /\ R[i].Score = FuzzyMatch(call.pattern, R[i].Text)
            /\ R[i].Score # 0
       /\ \A t \in FuzzyCandidates :
            Occurrences([i \in DOMAIN R |-> R[i].Text], t) =
              IF FuzzyMatch(call.pattern, t) # 0 THEN Occurrences(texts, t) ELSE 0
       /\ \A i, j \in DOMAIN R : i < j => R[i].Score >= R[j].Score

\* three candidates, one without a match, the other two returned in the other
\* order
C20_Witness ==
  /\ SearchReturned
  /\ Len(call.texts) = 3
  /\ Len(call.results) = 2
  /\ call.results[1].Text = call.texts[3]
  /\ call.results[2].Text = call.texts[1]
  /\ call.results[1].Score > call.results[2].Score

\* the maximal runs of letters and digits of text, as <<first, last>>
Runs(text) ==
  {r \in (DOMAIN text) \X (DOMAIN text) :
     /\ r[1] <= r[2]
     /\ \A i \in r[1]..r[2] : IsAlnum(text[i])
     /\ r[1] = 1 \/ ~IsAlnum(text[r[1] - 1])
     /\ r[2] = Len(text) \/ ~IsAlnum(text[r[2] + 1])}

\* SplitWords has returned
SplitReturned == call.fn = "SplitWords" /\ call.returned

\* C21: SplitWords returns the maximal runs of letters and digits of its
\* input, lower-cased, in their order; no token is empty or holds another
\* character; an input that is empty or without letters and digits gives no
\* token, and "Hello, World! 123" gives hello, world, 123.
C21_SplitWordsGivesTheRuns ==
  SplitReturned =>
    LET text == call.text
        words == call.words
        runs == Runs(text)
    IN /\ Len(words) = Cardinality(runs)
       /\ \A r \in runs :
            words[Cardinality({q \in runs : q[1] < r[1]}) + 1] =
              ToLower(SubSeq(text, r[1], r[2]))
       /\ \A k \in DOMAIN words :
            /\ words[k] # <<>>
            /\ \A i \in DOMAIN words[k] : IsAlnum(words[k][i])
            /\ words[k] = ToLower(words[k])
       /\ (\A i \in DOMAIN text : ~IsAlnum(text[i])) => words = <<>>
       /\ text = HelloWorld =>
            words = << <<"h", "e", "l", "l", "o">>,
                       <<"w", "o", "r", "l", "d">>, <<"1", "2", "3">> >>

\* two words out of a text with an upper-case letter and two separators
C21_Witness ==
  /\ SplitReturned
  /\ call.text = <<"D", "_", " ", "1">>
  /\ call.words = << <<"d">>, <<"1">> >>

\* ----------------------------------------------------------- deleting a note
\* the identifiers of the notes the list holds, and of those stored
ListIDs(L) ==
  {L.allNotes[i].ID : i \in DOMAIN L.allNotes}
    \cup {NoteAt(L, i).ID : i \in DOMAIN L.filteredNotes}
StoredIDs(st) == {st.notes[i].ID : i \in DOMAIN st.notes}

\* the list is shown in browse mode and the program takes keys
Browsing ==
  status = "running" /\ currentView = ViewNotesList /\ ~notesList.searchMode

\* the delete key asks for the deletion of the note at the cursor
DeleteKeyTakesTheNoteAtTheCursor ==
  (Browsing /\ notesList.filteredNotes # <<>>) =>
    /\ notesList.cursor + 1 \in DOMAIN notesList.filteredNotes
    /\ ~OnKey("d").panic
    /\ OnKey("d").c =
         {CmdDeleteNote(NoteAt(notesList, notesList.cursor + 1).ID)}

\* a delete command that runs either removes its note from the store, keeps
\* the others and reloads, or changes neither the store nor the list and does
\* not reload
DeleteCommandRuns ==
  \A c \in pending :
    (c.name = "deleteNote" /\ c \notin pending') =>
      IF store' # store
      THEN /\ StoredIDs(store') = StoredIDs(store) \ {c.ID}
           /\ notesLoadedMsg(GetAllNotes(store')) \in pending'
      ELSE /\ pending' = pending \ {c}
           /\ notesList' = notesList

\* with every command run and every message delivered, the list holds the
\* stored notes and no other
ListHoldsTheStoredNotes ==
  (Browsing /\ pending = {}) => ListIDs(notesList) = StoredIDs(store)

\* C22: in browse mode with a filtered set that is not empty, 'delete' targets
\* the note at the cursor; when the store deletes it, the full set is reloaded
\* and afterwards the list holds every other stored note and not that one;
\* when the store fails, nothing is reloaded and the list stays as it is.
C22_DeleteRemovesTheNoteAtTheCursor ==
  /\ [](DeleteKeyTakesTheNoteAtTheCursor /\ ListHoldsTheStoredNotes)
  /\ [][DeleteCommandRuns]_vars

\* ------------------------------------------------- the claims on the storage
\* the tag rows of the store st with exactly this name
RowsNamed(st, name) == {i \in DOMAIN st.tags : st.tags[i].Name = name}

\* the rows of note_tags that join the note id to a tag with this name
Joined(st, id, name) ==
  {p \in st.noteTags :
     p[1] = id /\ \E i \in RowsNamed(st, name) : st.tags[i].ID = p[2]}

\* the service has just returned from a call of fn
Returned(fn) == call.fn = fn

\* C23: AddTagToNote on a stored note succeeds and leaves exactly one tag row
\* of the name and exactly one association of the note with it; the tag row is
\* created only if none had the name, and a call that finds the association
\* changes nothing in the store.
C23_AddTagToNoteIsIdempotent ==
  (Returned("AddTagToNote") /\ NoteStored(call.before, call.id)) =>
    /\ ~call.err
    /\ Cardinality(RowsNamed(store, call.name)) = 1
    /\ Cardinality(Joined(store, call.id, call.name)) = 1
    /\ IF RowsNamed(call.before, call.name) # {}
       THEN store.tags = call.before.tags
       ELSE Len(store.tags) = Len(call.before.tags) + 1
    /\ Joined(call.before, call.id, call.name) # {} => store = call.before
    /\ AddTagToNote(store, call.id, call.name) = store
    /\ ~AddTagToNoteFails(store, call.id, call.name)

\* the call is made a second time on a tag that the first call created
C23_Witness ==
  /\ Returned("AddTagToNote")
  /\ ~call.err
  /\ NoteStored(call.before, call.id)
  /\ call.name = <<"e">>
  /\ Joined(call.before, call.id, call.name) # {}
  /\ store = call.before

\* the texts that stand somewhere in text
SubstringsOf(text) ==
  {SubSeq(text, i, j) : i \in 1..Len(text) + 1, j \in 0..Len(text)}

\* the identifiers of a sequence of notes
IDsOf(notes) == {notes[i].ID : i \in DOMAIN notes}

\* C24: CreateNote returns a note with an identifier that is not 0 and with
\* the title given; GetNote on the identifier gives the title and the content
\* back, and SearchNotes on a substring of either returns the note; after
\* AddTagToNote on a stored note, GetNote returns it with exactly one tag of
\* that name.
C24_StoreRoundTrip ==
  /\ Returned("CreateNote") =>
       /\ ~call.err
       /\ call.note.ID # 0
       /\ call.note.Title = call.title
       /\ GetNote(store, call.note.ID).Title = call.title
       /\ GetNote(store, call.note.ID).Content = call.content
       /\ \A query \in SubstringsOf(call.title) \cup SubstringsOf(call.content) :
            \A limit \in StoreLimits \cup {2} :
              call.note.ID \in IDsOf(SearchNotes(store, query, limit))
  /\ (Returned("AddTagToNote") /\ NoteStored(call.before, call.id)) =>
       LET tags == GetNote(store, call.id).Tags
       IN Cardinality({i \in DOMAIN tags : tags[i].Name = call.name}) = 1

\* a note is created with a content, the only one that has it
C24_Witness ==
  /\ Returned("CreateNote")
  /\ call.note.ID = 3
  /\ call.content = <<"e">>
  /\ call.title = <<"E", "d">>
  /\ Len(store.notes) = 3

\* C25: UpdateNote and DeleteNote on an identifier that is not stored, and
\* RemoveTagFromNote on a pair that is not associated, return an error and
\* leave the store as it was; CreateTag on a name that is there fails, and no
\* two tag rows ever have the same name.
C25_MissingRowsAreErrors ==
  /\ (Returned("UpdateNote") /\ ~NoteStored(call.before, call.id)) =>
       (call.err /\ store = call.before)
  /\ (Returned("DeleteNote") /\ ~NoteStored(call.before, call.id)) =>
       (call.err /\ store = call.before)
  /\ (/\ Returned("RemoveTagFromNote")
      /\ <<call.id, call.tagID>> \notin call.before.noteTags) =>
       (call.err /\ store = call.before)
  /\ (Returned("CreateTag") /\ RowsNamed(call.before, call.name) # {}) =>
       (call.err /\ store = call.before)
  /\ \A i, j \in DOMAIN store.tags :
       store.tags[i].Name = store.tags[j].Name => i = j

\* CreateTag is refused for the name of a tag created by an earlier call
C25_Witness ==
  /\ Returned("CreateTag")
  /\ call.err
  /\ call.name = <<"e">>
  /\ Len(store.tags) = 3

\* --------------------------------------------------------------- the help view
\* the help is shown and the program takes keys
Helping == status = "running" /\ currentView = ViewHelp

\* C26: from the help view, each of the keys esc, 'q' and '?' makes the notes
\* list the current view, and the program is not asked to quit.
C26_HelpKeysCloseTheHelp ==
  Helping =>
    \A k \in {"esc", "q", "?"} :
      /\ OnKey(k).v = ViewNotesList
      /\ CmdQuit \notin OnKey(k).c

\* ------------------------------------------------------------ saving, in time
\* a step that handles a key: the only steps that take nothing out of pending
KeyStep == pending \subseteq pending'

\* C27: a save runs to completion within the handling of the save key: while
\* a save is requested and not yet run, no key is handled, so that what is
\* written are the buffers as they were when the key was pressed.
C27_NoKeyBetweenSaveKeyAndSave ==
  [][(CmdSaveNote \in pending) => (~KeyStep)]_vars

\* ------------------------------------------------------- the rows of the joins
\* every row of note_tags joins a note that is stored
JoinsReferToStoredNotes ==
  \A p \in store.noteTags : NoteStored(store, p[1])

\* the tag rows of one state are tag rows of the next
TagRowsStay == TagRows(store) \subseteq TagRows(store')

\* C28: deleting a note removes its rows of note_tags, so that none refers to
\* a note that is not stored any more, and no operation of the list or the
\* editor deletes a tag row.
C28_DeleteCascadesToTheJoins ==
  []JoinsReferToStoredNotes /\ [][TagRowsStay]_vars

\* ------------------------------------------------- the tag field, other keys
\* the editor is shown with the focus on the tags
EditingTags == Editing /\ noteEditor.focused = 2

\* C29: with the focus on the tags, backspace removes the last character of
\* the tag input and recomputes the suggestions: the list and its visibility
\* afterwards are those of the shortened input, empty and hidden when it has
\* fewer than 2 characters.
C29_BackspaceRecomputesSuggestions ==
  EditingTags =>
    LET r == OnKey("backspace").e
        shortened == DropLast(noteEditor.tagInput)
        fresh == updateTagSuggestions([noteEditor EXCEPT !.tagInput = shortened])
    IN /\ r.tagInput = shortened
       /\ r.tagSuggestions = fresh.tagSuggestions
       /\ r.showSuggestions = fresh.showSuggestions
       /\ Len(shortened) < 2 => (r.tagSuggestions = <<>> /\ ~r.showSuggestions)

\* the keys of the typing sub-state: the characters, space, backspace and tab
TypingKeys == TypedChars \cup {"q", "?", " ", "backspace", "tab"}

\* C30: while the suggestions are visible, a key other than up, down and enter
\* leaves the suggesting sub-state and is handled as the same key is with the
\* suggestions hidden: a character is appended to the tag input, and no key's
\* effect on the tag input is lost.
C30_OtherKeysAreTypedKeys ==
  (EditingTags /\ noteEditor.showSuggestions) =>
    \A k \in TypingKeys :
      LET typing == [noteEditor EXCEPT !.showSuggestions = FALSE,
                                       !.suggestionCursor = 0]
          typed == AppUpdateKey(currentView, notesList, typing, k)
      IN /\ OnKey(k) = typed
         /\ k \in TypedChars \cup {"q", "?"} =>
              OnKey(k).e.tagInput = Append(noteEditor.tagInput, k)

\* ------------------------------------------------- the score of FuzzyMatch
\* the positions of t the characters of p are matched at, each at the first
\* place after the one before it
GreedyPositions(p, t) ==
  CHOOSE at \in [DOMAIN p -> DOMAIN t] :
    \A i \in DOMAIN p :
      LET from == IF i = 1 THEN 0 ELSE at[i - 1]
      IN /\ at[i] > from
         /\ t[at[i]] = p[i]
         /\ \A j \in (from + 1)..(at[i] - 1) : t[j] # p[i]

\* how many positions right before j, without a gap, are matched ones
PrecedingMatched(M, j) ==
  Cardinality({m \in 1..(j - 1) : \A x \in m..(j - 1) : x \in M})

\* 10 + 2k summed over the positions of S
RECURSIVE PointsOf(_, _)
PointsOf(M, S) ==
  IF S = {} THEN 0
  ELSE LET j == CHOOSE x \in S : TRUE
       IN 10 + 2 * PrecedingMatched(M, j) + PointsOf(M, S \ {j})

\* C31: for the empty pattern FuzzyMatch returns 100 whatever the candidate;
\* for a pattern that matches, it returns the sum, over the candidate positions
\* matched greedily, of 10 + 2k, k being the number of matched positions right
\* before without a gap, plus 100 divided by the candidate's length, rounded
\* down.
C31_ScoreFormula ==
  MatchReturned =>
    LET p == ToLower(call.pattern)
        t == ToLower(call.text)
    IN IF p = <<>> THEN call.score = 100
       ELSE IsSubsequence(p, t) =>
              LET at == GreedyPositions(p, t)
                  M == {at[i] : i \in DOMAIN p}
              IN call.score = PointsOf(M, M) + (100 \div Len(t))

\* a character without a match between two matched ones: no bonus for the
\* second
C31_Witness ==
  /\ MatchReturned
  /\ call.pattern = <<"d", "d">>
  /\ call.text = <<"d", "e", "D">>
  /\ call.score = 10 + 10 + 33

\* C40: for a pattern that is not empty, no candidate scores above the
\* candidate that equals the pattern up to the case of its letters; a matching
\* candidate longer than the pattern scores at most as much.
C40_ExactMatchScoresHighest ==
  (MatchReturned /\ call.pattern # <<>>) =>
    \A exact \in FuzzyTexts :
      EqualFold(exact, call.pattern) =>
        call.score <= FuzzyMatch(call.pattern, exact)

\* a longer candidate holding the pattern without a gap scores below the
\* pattern itself written in the other case
C40_Witness ==
  /\ MatchReturned
  /\ call.pattern = <<"d", "e">>
  /\ call.text = <<"d", "e", "d">>
  /\ call.score = 10 + 12 + 33
  /\ call.score < FuzzyMatch(call.pattern, <<"D", "e">>)

\* ------------------------------------------------- entering the editor
\* C32: whatever an earlier editor session left behind, 'n' in browse mode
\* clears the selected note and opens the editor in create mode: title,
\* content, tag list and tag input empty, the focus on the title and the
\* suggestions hidden.
C32_NewOpensAnEmptyEditor ==
  Browsing =>
    LET r == OnKey("n")
    IN /\ ~r.panic
       /\ r.v = ViewNoteEditor
       /\ r.l.selectedNote = 0
       /\ r.e.mode = "create"
       /\ r.e.title = <<>>
       /\ r.e.content = <<>>
       /\ r.e.tags = <<>>
       /\ r.e.tagInput = <<>>
       /\ r.e.focused = 0
       /\ ~r.e.showSuggestions

\* the editor was left by escape while a note was edited: tags attached, the
\* focus on the tags, a tag half typed and its suggestions visible
C32_Witness ==
  /\ Browsing
  /\ noteEditor.mode = "edit"
  /\ noteEditor.title # <<>>
  /\ Len(noteEditor.tags) = 2
  /\ noteEditor.focused = 2
  /\ noteEditor.tagInput # <<>>
  /\ noteEditor.showSuggestions
  /\ OnKey("n").e.tagInput = <<>>

\* 'e' opens the editor on the note at the cursor
EditOpensTheNoteAtTheCursor ==
  (Browsing /\ Len(notesList.filteredNotes) > 0) =>
    LET r == OnKey("e")
    IN /\ ~r.panic
       /\ r.v = ViewNoteEditor
       /\ r.e.mode = "edit"
       /\ r.e.title = NoteAt(notesList, notesList.cursor + 1).Title
       /\ r.e.content = NoteAt(notesList, notesList.cursor + 1).Content
       /\ r.e.tags = NoteAt(notesList, notesList.cursor + 1).Tags
       /\ r.e.focused = 0
       /\ ~r.e.showSuggestions

\* no key pressed in the editor changes a note of the list or the store
EditorKeysLeaveTheNotes ==
  (Editing /\ KeyStep) =>
    /\ notesList'.allNotes = notesList.allNotes
    /\ store' = store

\* C33: 'e' in browse mode with a filtered set that is not empty opens the
\* editor in edit mode with the title, the content and the tags of the note at
\* the cursor, the focus on the title and the suggestions hidden; the tags are
\* a copy: attaching tags and leaving with escape changes neither the list's
\* note nor the store.
C33_EditOpensACopyOfTheNote ==
  /\ []EditOpensTheNoteAtTheCursor
  /\ [][EditorKeysLeaveTheNotes]_vars

\* ------------------------------------------------- the failures of a save
\* the note a save writes: the one created, or the one edited
SavedID == IF noteEditor.mode = "create" THEN store.nextNoteID
           ELSE noteEditor.note.ID

\* C34: a tag removal or a tag association that fails during a save does not
\* end the save: each of the other tags of the buffer is still associated with
\* the note, the controller returns to the list and the notes are reloaded.
C34_TagFailuresDoNotAbortTheSave ==
  [][(SaveStep /\ writes' # writes) =>
       /\ currentView' = ViewNotesList
       /\ notesLoadedMsg(GetAllNotes(store')) \in pending'
       /\ \E failed \in 0..Len(noteEditor.tags) :
            \A i \in DOMAIN noteEditor.tags \ {failed} :
              noteEditor.tags[i].Name \in TagNamesOf(store', SavedID)]_vars

\* a note saved with two tags in the buffer: the association of the first
\* failed, and the second, whose removal had failed, was associated all the same
C34_Witness ==
  /\ currentView = ViewNotesList
  /\ writes = 1
  /\ noteEditor.mode = "edit"
  /\ Len(noteEditor.tags) = 2
  /\ noteEditor.tags[1].Name \notin TagNamesOf(store, noteEditor.note.ID)
  /\ noteEditor.tags[2].Name \in TagNamesOf(store, noteEditor.note.ID)

\* the load command that runs hands over the stored notes or, when the store
\* fails, no notes at all
LoadGivesTheNotesOrNone ==
  (CmdLoadNotes \in pending /\ CmdLoadNotes \notin pending') =>
    \E notes \in {GetAllNotes(store), <<>>} :
      pending' = (pending \ {CmdLoadNotes}) \cup {notesLoadedMsg(notes)}

\* the list that takes the message of a failed load holds no notes and is loaded
NoNotesLoaded ==
  (status = "running" /\ currentView = ViewNotesList) =>
    \A m \in pending :
      (m.name = "notesLoadedMsg" /\ m.notes = <<>>) =>
        LET L == ListNotesLoaded(notesList, m.notes)
        IN /\ L.allNotes = <<>>
           /\ L.filteredNotes = <<>>
           /\ L.loaded

\* the list shows what it was handed last
ListIsAsLoaded ==
  \A m \in pending :
    (m.name = "notesLoadedMsg" /\ m \notin pending'
       /\ currentView = ViewNotesList) =>
      /\ notesList'.allNotes = m.notes
      /\ notesList'.loaded
      /\ m.notes = <<>> => notesList'.filteredNotes = <<>>

\* C35: when the store fails to read the notes for a reload, the list is
\* handed no notes: its full set and its filtered set become empty, the list
\* is marked loaded, and no error is shown.
C35_FailedReloadGivesAnEmptyList ==
  /\ []NoNotesLoaded
  /\ [][LoadGivesTheNotesOrNone /\ ListIsAsLoaded]_vars

\* the list is loaded and empty while the store holds notes, with a query typed
C35_Witness ==
  /\ currentView = ViewNotesList
  /\ status = "running"
  /\ notesList.loaded
  /\ notesList.allNotes = <<>>
  /\ notesList.filteredNotes = <<>>
  /\ notesList.searchQuery # <<>>
  /\ store.notes # <<>>

\* ------------------------------------------------- a query without a term
\* C36: a query that is not empty and holds no letter and no digit gives an
\* empty filtered set, not the full set: every note is shown for the empty
\* query only.
C36_QueryWithoutATermShowsNothing ==
  LET query == notesList.searchQuery
  IN (query # <<>> /\ \A i \in DOMAIN query : ~IsAlnum(query[i])) =>
       notesList.filteredNotes = <<>>

\* two notes are loaded and a space is typed into the query: none is shown
C36_Witness ==
  /\ Len(notesList.allNotes) = 2
  /\ notesList.searchMode
  /\ notesList.searchQuery = <<" ">>
  /\ notesList.filteredNotes = <<>>

\* ------------------------------------------------- the tags of a session
\* the tags before are the first of the tags after, in the same order
TagsKept ==
  /\ Len(noteEditor.tags) <= Len(noteEditor'.tags)
  /\ \A i \in DOMAIN noteEditor.tags : noteEditor'.tags[i] = noteEditor.tags[i]

\* C37: while the editor stays open, no key press and no message takes a tag
\* out of the editor's tag list or moves one: tags are added at the end only,
\* so the tags the note had when the editor was opened are still in the buffer
\* when it is saved.
C37_TagsOnlyGrow ==
  [][(Editing /\ currentView' = ViewNoteEditor) => TagsKept]_vars

\* the editor holds the tag the note was stored with, and behind it a tag
\* typed in this session
C37_Witness ==
  /\ Editing
  /\ noteEditor.note.ID = 1
  /\ Len(noteEditor.tags) = 2
  /\ noteEditor.tags[1] = [ID |-> 1, Name |-> <<"d", "d">>]
  /\ noteEditor.tags[2].ID = 0

\* ------------------------------------------------- a save the store refuses
\* C38: when the store fails to update the note of an edit-mode save, nothing
\* changes: the editor stays the current view, no tag call is made, and the
\* note being edited, which the list's full set holds too, keeps the title and
\* the content it had.
C38_FailedUpdateChangesNothing ==
  [][(SaveStep /\ noteEditor.mode = "edit" /\ ~Blank(noteEditor.title)
        /\ writes' = writes /\ currentView = ViewNoteEditor) =>
       /\ currentView' = ViewNoteEditor
       /\ store' = store
       /\ notesList'.allNotes = notesList.allNotes]_vars

\* ------------------------------------------------- the preview of the editor
\* C39: while the editor's split pane is on, the preview is showing and its
\* content is the editor's content buffer, also right after the editor was
\* entered again, for another note or a new one, with the split pane left on.
C39_PreviewShowsTheContent ==
  (Editing /\ noteEditor.splitPane) =>
    /\ noteEditor.preview.showPreview
    /\ noteEditor.preview.content = noteEditor.content

====
